---- MODULE Spec2Model ----
(***************************************************************************)
(* Model of projen-bundle-lambda-function-code: the Bundler component      *)
(* (bundler.ts), the LambdaFunctionCodeBundle component                    *)
(* (lambda-function-code.ts), the LambdaFunctionCodeBundler auto-discovery *)
(* component (index.ts) and the path helpers of utils.ts.                  *)
(*                                                                         *)
(* Strings are sequences of atoms.  An atom is "/", ".", "-" or a word (a  *)
(* run of characters holding none of these three); no two words are        *)
(* adjacent in an input, so that two strings are equal exactly when their  *)
(* atom sequences are.  The platform is POSIX: path.sep is "/".            *)
(***************************************************************************)
EXTENDS Integers, Sequences, FiniteSets, TLC

VARIABLES
    project,      \* the project's fixed features: outdir, ESLint, tsconfigDev
    bundler,      \* the project's Bundler component: its fields, or absent
    components,   \* project.components, in order of registration
    tasks,        \* project.tasks: sequence of [name, exec, spawns]
    preCompile,   \* names of the tasks spawned by project.preCompileTask
    gitignore,    \* patterns added with project.addGitIgnore
    npmignore,    \* patterns added with project.addPackageIgnore
    deps,         \* project.deps: sequence of [name, type]
    files,        \* generated construct files: sequence of [path, name, asset]
    eslintAllow,  \* entrypoints passed to Eslint.allowDevDeps
    bundles,      \* the Bundle objects addBundle has returned, in order
    last          \* the last operation: its inputs, outcome and result

vars == <<project, bundler, components, tasks, preCompile, gitignore, npmignore, deps,
          files, eslintAllow, bundles, last>>

---------------------------------------------------------------------------
(* Strings *)

sep == "/"

DOT == "."

\* s.endsWith(t)
EndsWith(s, t) ==
    /\ Len(t) <= Len(s)
    /\ SubSeq(s, Len(s) - Len(t) + 1, Len(s)) = t

\* s.startsWith(t)
StartsWith(s, t) ==
    /\ Len(t) <= Len(s)
    /\ SubSeq(s, 1, Len(t)) = t

\* s.slice(0, s.length - n)
DropLast(s, n) == SubSeq(s, 1, Len(s) - n)

\* the largest i with s[i] = c, or 0
LastIndexOf(s, c) ==
    LET I == {i \in 1..Len(s) : s[i] = c}
    IN  IF I = {} THEN 0 ELSE CHOOSE i \in I : \A j \in I : j <= i

\* the smallest i with s[i] = c, or 0
IndexOf(s, c) ==
    LET I == {i \in 1..Len(s) : s[i] = c}
    IN  IF I = {} THEN 0 ELSE CHOOSE i \in I : \A j \in I : i <= j

\* p.split(sep): "" gives [""], "a//b" gives ["a", "", "b"]
RECURSIVE SplitSep(_)
SplitSep(p) ==
    LET i == IndexOf(p, sep)
    IN  IF i = 0 THEN <<p>>
        ELSE <<SubSeq(p, 1, i - 1)>> \o SplitSep(SubSeq(p, i + 1, Len(p)))

\* parts.join(sep): [] gives ""
RECURSIVE JoinSep(_)
JoinSep(parts) ==
    IF parts = <<>> THEN <<>>
    ELSE IF Len(parts) = 1 THEN parts[1]
    ELSE parts[1] \o <<sep>> \o JoinSep(Tail(parts))

\* p without its trailing separators
RECURSIVE StripTrailingSep(_)
StripTrailingSep(p) ==
    IF p # <<>> /\ p[Len(p)] = sep THEN StripTrailingSep(DropLast(p, 1)) ELSE p

---------------------------------------------------------------------------
(* node:path, POSIX flavour *)

\* normalizeString: the segments of path with "" and "." dropped and ".."
\* resolved against the segment before it; stack is the result so far
RECURSIVE NormSegments(_, _, _)
NormSegments(segs, stack, allowAboveRoot) ==
    IF segs = <<>> THEN stack
    ELSE LET s == Head(segs)
             rest == Tail(segs)
         IN  IF s = <<>> \/ s = <<DOT>> THEN NormSegments(rest, stack, allowAboveRoot)
             ELSE IF s = <<DOT, DOT>> THEN
                 IF stack # <<>> /\ stack[Len(stack)] # <<DOT, DOT>>
                 THEN NormSegments(rest, DropLast(stack, 1), allowAboveRoot)
                 ELSE IF allowAboveRoot
                      THEN NormSegments(rest, Append(stack, s), allowAboveRoot)
                      ELSE NormSegments(rest, stack, allowAboveRoot)
             ELSE NormSegments(rest, Append(stack, s), allowAboveRoot)

\* path.posix.normalize
normalize(p) ==
    IF p = <<>> THEN <<DOT>>
    ELSE LET isAbsolute == p[1] = sep
             trailingSeparator == p[Len(p)] = sep
             s == JoinSep(NormSegments(SplitSep(p), <<>>, ~isAbsolute))
         IN  IF s = <<>>
             THEN IF isAbsolute THEN <<sep>>
                  ELSE IF trailingSeparator THEN <<DOT, sep>> ELSE <<DOT>>
             ELSE (IF isAbsolute THEN <<sep>> ELSE <<>>) \o s
                  \o (IF trailingSeparator THEN <<sep>> ELSE <<>>)

\* path.posix.join(a, b): the non-empty arguments joined by "/", normalized
join(a, b) ==
    IF a = <<>> /\ b = <<>> THEN <<DOT>>
    ELSE IF a = <<>> THEN normalize(b)
    ELSE IF b = <<>> THEN normalize(a)
    ELSE normalize(a \o <<sep>> \o b)

\* path.posix.dirname
dirname(p) ==
    IF p = <<>> THEN <<DOT>>
    ELSE LET hasRoot == p[1] = sep
             q == StripTrailingSep(p)
             \* the last separator that is followed by a non-separator and is
             \* not the first character
             I == {i \in 2..Len(q) : q[i] = sep}
             end == IF I = {} THEN 0 ELSE CHOOSE i \in I : \A j \in I : j <= i
         IN  IF end = 0 THEN (IF hasRoot THEN <<sep>> ELSE <<DOT>>)
             ELSE IF hasRoot /\ end = 2 THEN <<sep, sep>>
             ELSE SubSeq(p, 1, end - 1)

\* the last segment of p, trailing separators ignored ("" when there is none)
LastSegment(p) ==
    LET q == StripTrailingSep(p)
    IN  SubSeq(q, LastIndexOf(q, sep) + 1, Len(q))

\* path.posix.extname: from the last "." of the last segment, "" when there
\* is no ".", when the segment starts with its only "." or when it is ".."
extname(p) ==
    LET b == LastSegment(p)
        startDot == LastIndexOf(b, DOT)
    IN  IF startDot = 0 \/ startDot = 1 \/ b = <<DOT, DOT>> THEN <<>>
        ELSE SubSeq(b, startDot, Len(b))

\* path.posix.basename(p, suffix)
basename(p, suffix) ==
    LET b == LastSegment(p)
        q == StripTrailingSep(p)
        start == LastIndexOf(q, sep) + 1
    IN  IF suffix = <<>> \/ Len(suffix) > Len(p) THEN b
        ELSE IF suffix = p THEN <<>>
        ELSE IF EndsWith(b, suffix)
             THEN (IF b = suffix THEN b ELSE DropLast(b, Len(suffix)))
        \* the segment ends before the suffix is matched: the slice runs to the
        \* end of the path, trailing separators included
        ELSE IF EndsWith(suffix, b) THEN SubSeq(p, start, Len(p))
        ELSE b

---------------------------------------------------------------------------
(* utils.ts *)

SRC == <<"src">>

\* shiftSrc without its test: the first segment is always dropped
shiftAlways(parts) == Tail(parts)

\* if (parts[0] === "src") parts.shift()
shiftSrc(parts) == IF parts[1] = SRC THEN Tail(parts) ELSE parts

\* renderBundleName returning the base name alone, the directory dropped
renderBaseName(entrypoint) ==
    LET parts == shiftSrc(SplitSep(join(entrypoint, <<>>)))
        p == JoinSep(parts)
    IN  basename(p, extname(p))

\* renderBundleName(entrypoint)
renderBundleName(entrypoint) ==
    LET parts == shiftSrc(SplitSep(join(entrypoint, <<>>)))
        p == JoinSep(parts)
        dir == dirname(p)
        base == basename(p, extname(p))
    IN  join(dir, base)

\* convertToPosixPath(p): p.split(sep).join(posix.sep)
convertToPosixPath(p) == JoinSep(SplitSep(p))

\* the separator of win32
BACKSLASH == "\\"

\* p.split(s)
RECURSIVE splitOn(_, _)
splitOn(p, s) ==
    IF IndexOf(p, s) = 0 THEN <<p>>
    ELSE <<SubSeq(p, 1, IndexOf(p, s) - 1)>>
         \o splitOn(SubSeq(p, IndexOf(p, s) + 1, Len(p)), s)

\* parts.join(s)
RECURSIVE joinWith(_, _)
joinWith(parts, s) ==
    IF Len(parts) = 1 THEN parts[1]
    ELSE parts[1] \o <<s>> \o joinWith(Tail(parts), s)

\* convertToPosixPathOn handing the path back as it came
keepNativePath(nativeSep, p) == p

\* convertToPosixPath(p) on a platform whose path.sep is nativeSep
convertToPosixPathOn(nativeSep, p) == joinWith(splitOn(p, nativeSep), "/")

---------------------------------------------------------------------------
(* JavaScript values *)

\* an object with optional keys is a function on the keys that are set
NoOptions == [k \in {} |-> <<>>]

Has(o, k) == k \in DOMAIN o

\* o[k] ?? d
OrElse(o, k, d) == IF Has(o, k) THEN o[k] ELSE d

\* { ...o, [k]: v }
With(o, k, v) == [x \in DOMAIN o \cup {k} |-> IF x = k THEN v ELSE o[x]]

\* o with key k left undefined
Without(o, k) == [x \in DOMAIN o \ {k} |-> o[x]]

\* the element of a singleton set; a value that later steps use several times
\* is bound once as x \in {value}
Only(S) == CHOOSE x \in S : TRUE

\* `${b}` of a boolean
BoolStr(b) == IF b THEN <<"true">> ELSE <<"false">>

\* args.join(" ")
RECURSIVE JoinSpace(_)
JoinSpace(args) ==
    IF args = <<>> THEN <<>>
    ELSE IF Len(args) = 1 THEN args[1]
    ELSE args[1] \o <<" ">> \o JoinSpace(Tail(args))

---------------------------------------------------------------------------
(* The project (projen): tasks, files, components *)

\* the project's state as one value
Cur ==
    [project |-> project, bundler |-> bundler, components |-> components,
     tasks |-> tasks, preCompile |-> preCompile, gitignore |-> gitignore,
     npmignore |-> npmignore, deps |-> deps, files |-> files,
     eslintAllow |-> eslintAllow, bundles |-> bundles]

HasTask(st, name) == \E i \in 1..Len(st.tasks) : st.tasks[i].name = name

HasFile(st, path) == \E i \in 1..Len(st.files) : st.files[i].path = path

\* the place of the task called name among the tasks, or 0
TaskNamed(ts, name) ==
    IF \E i \in 1..Len(ts) : ts[i].name = name
    THEN CHOOSE i \in 1..Len(ts) : ts[i].name = name
    ELSE 0

\* project.addTask(name, {description, exec}): a second task of the same
\* name is refused with an error
addTask(st, name, description, exec) ==
    IF HasTask(st, name) THEN [st |-> st, error |-> "task exists"]
    ELSE [st |-> [st EXCEPT !.tasks = Append(@,
                     [name |-> name, description |-> description,
                      exec |-> exec, spawns |-> <<>>])],
          error |-> "none"]

\* spawn putting the subtask ahead of the steps the task has
spawnAhead(st, name, subtask) ==
    [st EXCEPT !.tasks = [i \in 1..Len(@) |->
        IF @[i].name = name THEN [@[i] EXCEPT !.spawns = <<subtask>> \o @]
        ELSE @[i]]]

\* task.spawn(subtask) on the task called name
spawn(st, name, subtask) ==
    [st EXCEPT !.tasks = [i \in 1..Len(@) |->
        IF @[i].name = name THEN [@[i] EXCEPT !.spawns = Append(@, subtask)]
        ELSE @[i]]]

---------------------------------------------------------------------------
(* bundler.ts *)

BUNDLE == <<"bundle">>

DefaultBanner ==
    <<":js=import { createRequire as topLevelCreateRequire } from 'module';const require = topLevelCreateRequire(import.meta.url)">>

NoBundler == [present |-> FALSE]

\* NewBundlerFields with addToPreCompile false unless asked for
NewBundlerFieldsOptIn(options) ==
    [present |-> TRUE,
     options |-> options,
     bundledir |-> OrElse(options, "assetsDir", <<"assets">>),
     addToPreCompile |-> OrElse(options, "addToPreCompile", FALSE),
     hasTask |-> FALSE]

\* new Bundler(project, options): the fields set by the constructor
NewBundlerFields(options) ==
    [present |-> TRUE,
     options |-> options,
     bundledir |-> OrElse(options, "assetsDir", <<"assets">>),
     addToPreCompile |-> OrElse(options, "addToPreCompile", TRUE),
     hasTask |-> FALSE]

\* addBundlingSupport depending on esbuild without the version asked for
addUnversionedSupport(st) ==
    LET ignoreEntry == <<"/">> \o st.bundler.bundledir \o <<"/">>
    IN  [st EXCEPT !.gitignore = Append(@, ignoreEntry),
                   !.npmignore = Append(@, <<"!">> \o ignoreEntry),
                   !.deps = Append(@, [name |-> <<"esbuild">>, type |-> "build"])]

\* Bundler.addBundlingSupport
addBundlingSupport(st) ==
    LET ignoreEntry == <<"/">> \o st.bundler.bundledir \o <<"/">>
        version == OrElse(st.bundler.options, "esbuildVersion", <<>>)
        dep == IF version # <<>> THEN <<"esbuild", "@">> \o version
               ELSE <<"esbuild">>
    IN  [st EXCEPT !.gitignore = Append(@, ignoreEntry),
                   !.npmignore = Append(@, <<"!">> \o ignoreEntry),
                   !.deps = Append(@, [name |-> dep, type |-> "build"])]

\* bundleTask without the test of this._task: a task created on every read
createBundleTask(st) ==
    LET s1 == addBundlingSupport(st)
        r == addTask(s1, BUNDLE, <<"Prepare assets">>, <<>>)
        s2 == [r.st EXCEPT !.bundler.hasTask = TRUE]
    IN  IF r.error # "none" THEN r
        ELSE [st |-> IF s2.bundler.addToPreCompile
                     THEN [s2 EXCEPT !.preCompile = Append(@, BUNDLE)]
                     ELSE s2,
              error |-> "none"]

\* the getter Bundler.bundleTask
bundleTask(st) ==
    IF st.bundler.hasTask THEN [st |-> st, error |-> "none"]
    ELSE LET s1 == addBundlingSupport(st)
             r == addTask(s1, BUNDLE, <<"Prepare assets">>, <<>>)
             s2 == [r.st EXCEPT !.bundler.hasTask = TRUE]
         IN  IF r.error # "none" THEN r
             ELSE [st |-> IF s2.bundler.addToPreCompile
                          THEN [s2 EXCEPT !.preCompile = Append(@, BUNDLE)]
                          ELSE s2,
                   error |-> "none"]

\* resolveLoaders merging the two maps instead of choosing one
mergeLoaders(b, options) ==
    OrElse(options, "loaders", <<>>) \o OrElse(b.options, "loaders", <<>>)

\* the loaders of a bundle: those of the call when it has any, else those of
\* the Bundler
resolveLoaders(b, options) ==
    IF Has(options, "loaders") THEN options.loaders
    ELSE OrElse(b.options, "loaders", <<>>)

\* externalArgs with a name that repeats pushed once
uniqueExternalArgs(externals) ==
    LET first == SelectSeq([i \in 1..Len(externals) |-> i],
                           LAMBDA i : \A j \in 1..(i - 1) : externals[j] # externals[i])
    IN  [k \in 1..Len(first) |-> <<"--external:">> \o externals[first[k]]]

\* the --external: flags, one push per element of options.externals
externalArgs(externals) ==
    [i \in 1..Len(externals) |-> <<"--external:">> \o externals[i]]

\* switchArgs pushing --sourcemap and --minify whatever their options say
fixedSwitchArgs(sourcemap, sourcesContent, minify) ==
    << <<"--sourcemap">> >>
    \o (IF sourcesContent
        THEN << <<"--sources-content=">> \o BoolStr(sourcesContent) >>
        ELSE <<>>)
    \o << <<"--minify">> >>

\* switchArgs with the flags pushed in alphabetical order
sortedSwitchArgs(sourcemap, sourcesContent, minify) ==
    (IF minify THEN << <<"--minify">> >> ELSE <<>>)
    \o (IF sourcemap THEN << <<"--sourcemap">> >> ELSE <<>>)
    \o (IF sourcesContent
        THEN << <<"--sources-content=">> \o BoolStr(sourcesContent) >>
        ELSE <<>>)

\* the flags --sourcemap, --sources-content and --minify, as pushed
switchArgs(sourcemap, sourcesContent, minify) ==
    (IF sourcemap THEN << <<"--sourcemap">> >> ELSE <<>>)
    \o (IF sourcesContent
        THEN << <<"--sources-content=">> \o BoolStr(sourcesContent) >>
        ELSE <<>>)
    \o (IF minify THEN << <<"--minify">> >> ELSE <<>>)

\* formatArgs with the banner text set off from its flag by "="
separatedBannerArgs(format, mainFields, banner) ==
    (IF format # <<>> THEN << <<"--format=">> \o format >> ELSE <<>>)
    \o (IF mainFields # <<>>
        THEN << <<"--main-fields=">> \o mainFields >> ELSE <<>>)
    \o (IF banner # <<>> THEN << <<"--banner=">> \o banner >> ELSE <<>>)

\* the flags --format, --main-fields and --banner, as pushed: an empty
\* string is falsy and pushes nothing
formatArgs(format, mainFields, banner) ==
    (IF format # <<>> THEN << <<"--format=">> \o format >> ELSE <<>>)
    \o (IF mainFields # <<>>
        THEN << <<"--main-fields=">> \o mainFields >> ELSE <<>>)
    \o (IF banner # <<>> THEN << <<"--banner">> \o banner >> ELSE <<>>)

\* the args of Bundler.addBundle, before the task is added
BundleArgs(b, entrypoint, options, outfile) ==
    LET target == OrElse(options, "target", <<"esnext">>)
        platform == OrElse(options, "platform", <<"node">>)
        format == OrElse(options, "format", <<"esm">>)
        sourcemap == OrElse(options, "sourcemap", TRUE)
        sourcesContent == OrElse(options, "sourcesContent", FALSE)
        minify == OrElse(options, "minify", TRUE)
        mainFields == OrElse(options, "mainFields", <<"module,main">>)
        banner == OrElse(options, "banner", DefaultBanner)
        tsconfig == OrElse(options, "tsconfigPath", <<>>)
        externals == OrElse(options, "externals", <<>>)
        loaders == resolveLoaders(b, options)
    IN  << <<"esbuild">>,
           <<"--bundle">>,
           entrypoint,
           <<"--target=\"">> \o target \o <<"\"">>,
           <<"--platform=\"">> \o platform \o <<"\"">>,
           <<"--outfile=\"">> \o outfile \o <<"\"">> >>
        \o (IF tsconfig # <<>>
            THEN << <<"--tsconfig=\"">> \o tsconfig \o <<"\"">> >> ELSE <<>>)
        \o externalArgs(externals)
        \o switchArgs(sourcemap, sourcesContent, minify)
        \o formatArgs(format, mainFields, banner)
        \o [i \in 1..Len(loaders) |->
              <<"--loader:.">> \o loaders[i][1] \o <<"=">> \o loaders[i][2]]

\* Bundler.addBundle(entrypoint, options)
addBundle(st, entrypoint, options) ==
    LET name == renderBundleName(entrypoint)
        outdir == join(st.bundler.bundledir, name)
        outfile == join(outdir, OrElse(options, "outfile", <<"index", ".", "mjs">>))
        args == BundleArgs(st.bundler, entrypoint, options, outfile)
        taskName == <<"bundle:">> \o name
    IN  Only({
          Only({
            IF r.error # "none"
            THEN [st |-> r.st, error |-> r.error, bundle |-> bundle]
            ELSE Only({
                   IF g.error # "none"
                   THEN [st |-> g.st, error |-> g.error, bundle |-> bundle]
                   ELSE [st |-> [spawn(g.st, BUNDLE, bundle.taskName)
                                   EXCEPT !.bundles = Append(@, bundle)],
                         error |-> "none", bundle |-> bundle]
                   : g \in {bundleTask(r.st)}})
            : r \in {addTask(st, bundle.taskName,
                              <<"Create a JavaScript bundle from ">> \o entrypoint,
                              JoinSpace(bundle.args))}})
          : bundle \in {[entrypoint |-> entrypoint, name |-> name,
                         taskName |-> taskName, outdir |-> outdir,
                         outfile |-> outfile, args |-> args]}})

---------------------------------------------------------------------------
(* lambda-function-code.ts *)

DefaultExtension == <<DOT, "lambda", DOT, "ts">>

TS == <<DOT, "ts">>

\* the first letter of a word in upper case
Capitalize(w) ==
    CASE w = "a" -> "A"
      [] w = "b" -> "B"
      [] w = "foo" -> "Foo"
      [] w = "hello" -> "Hello"
      [] w = "world" -> "World"
      [] w = "lambda" -> "Lambda"
      [] w = "src" -> "Src"
      [] w = "sub" -> "Sub"
      [] w = "dir" -> "Dir"
      [] w = "ts" -> "Ts"
      [] w = "js" -> "Js"
      [] OTHER -> w

\* pascal(s) of the "case" package: the words of s, each capitalized, the
\* separators between them dropped
RECURSIVE pascal(_)
pascal(s) ==
    IF s = <<>> THEN <<>>
    ELSE IF Head(s) \in {"-", DOT, sep} THEN pascal(Tail(s))
    ELSE <<Capitalize(Head(s))>> \o pascal(Tail(s))

\* the length of the longest common prefix of two sequences
RECURSIVE CommonPrefix(_, _)
CommonPrefix(a, b) ==
    IF a = <<>> \/ b = <<>> \/ Head(a) # Head(b) THEN 0
    ELSE 1 + CommonPrefix(Tail(a), Tail(b))

\* path.relative(from, to) of two absolute paths
relative(from, to) ==
    LET F == NormSegments(SplitSep(from), <<>>, FALSE)
        T == NormSegments(SplitSep(to), <<>>, FALSE)
        c == CommonPrefix(F, T)
    IN  JoinSep([i \in 1..(Len(F) - c) |-> <<DOT, DOT>>] \o SubSeq(T, c + 1, Len(T)))

\* new SourceCode(project, filePath) and its lines: a second file under the
\* same path is refused with an error
SourceCode(st, filePath, constructName, asset) ==
    IF \E i \in 1..Len(st.files) :
          join(st.project.outdir, st.files[i].path) = join(st.project.outdir, filePath)
    THEN [st |-> st, error |-> "file exists"]
    ELSE [st |-> [st EXCEPT !.components = Append(@, "SourceCode"),
                           !.files = Append(@, [path |-> filePath,
                                                name |-> constructName,
                                                asset |-> asset])],
          error |-> "none"]

\* hasExtension testing for ".ts" instead of the configured extension
hasTsExtension(entrypoint, extension) == EndsWith(entrypoint, TS)

\* entrypoint.endsWith(extension)
hasExtension(entrypoint, extension) == EndsWith(entrypoint, extension)

\* path.extname(constructFile) === ".ts"
isTypeScriptFile(constructFile) == extname(constructFile) = TS

\* basePath: the entrypoint without its extension
basePathOf(entrypoint, extension) ==
    join(dirname(entrypoint), basename(entrypoint, extension))

\* defaultConstructFile with the suffix of the option's documentation
functionConstructFile(basePath) == basePath \o <<"-", "function", DOT, "ts">>

\* `${basePath}-code.ts`
defaultConstructFile(basePath) == basePath \o <<"-", "code", DOT, "ts">>

\* defaultConstructName from the whole base path
pathConstructName(basePath) == pascal(basePath) \o <<"FunctionCode">>

\* `${pascal(path.basename(basePath))}FunctionCode`
defaultConstructName(basePath) ==
    pascal(basename(basePath, <<>>)) \o <<"FunctionCode">>

\* relativeOutfile reaching the output file instead of its directory
relativeToOutfile(outdir, constructFile, outfile) ==
    relative(dirname(join(outdir, constructFile)), join(outdir, outfile))

\* relativeOutfile: from the directory of the construct file to the
\* directory of the bundle's output file
relativeOutfile(outdir, constructFile, outfile) ==
    LET outfileAbs == join(outdir, outfile)
        constructAbs == join(outdir, constructFile)
    IN  relative(dirname(constructAbs), dirname(outfileAbs))

\* new LambdaFunctionCodeBundle(project, options)
LambdaFunctionCodeBundle(st, options) ==
    LET s0 == [st EXCEPT !.components = Append(@, "LambdaFunctionCodeBundle")]
        s1 == IF st.project.eslint
              THEN [s0 EXCEPT !.eslintAllow = Append(@, options.entrypoint)]
              ELSE s0
        entrypoint == options.entrypoint
        extension == OrElse(options, "extension", DefaultExtension)
        basePath == basePathOf(entrypoint, extension)
        file == OrElse(options, "constructFile", defaultConstructFile(basePath))
        name == OrElse(options, "constructName", defaultConstructName(basePath))
        spread == OrElse(options, "bundlingOptions", NoOptions)
        bundlingOptions ==
            IF Has(st.project, "tsconfigDev")
            THEN With(spread, "tsconfigPath", st.project.tsconfigDev)
            ELSE Without(spread, "tsconfigPath")
    IN  Only({
          IF ~st.bundler.present
          THEN [st |-> s0, error |-> "no bundler", made |-> made]
          ELSE IF ~hasExtension(entrypoint, extension)
          THEN [st |-> s1, error |-> "entrypoint extension", made |-> made]
          ELSE IF ~isTypeScriptFile(made.constructFile)
          THEN [st |-> s1, error |-> "construct file extension", made |-> made]
          ELSE Only({
            IF r.error # "none"
            THEN [st |-> r.st, error |-> r.error,
                  made |-> made @@ [bundle |-> r.bundle]]
            ELSE LET rel == relativeOutfile(st.project.outdir, made.constructFile,
                                            r.bundle.outfile)
                     f == SourceCode(r.st, made.constructFile, made.constructName,
                                     convertToPosixPath(rel))
                 IN  [st |-> f.st, error |-> f.error,
                      made |-> made @@ [bundle |-> r.bundle]]
            : r \in {addBundle(s1, entrypoint, made.bundlingOptions)}})
          : made \in {[entrypoint |-> entrypoint, extension |-> extension,
                       constructFile |-> file,
                       constructName |-> name,
                       bundlingOptions |-> bundlingOptions]}})

---------------------------------------------------------------------------
(* lambda-function-code-bundler.ts *)

\* { entrypoint, extension, ...options.bundleOptions }
spreadBundleOptions(entrypoint, options) ==
    LET own == [entrypoint |-> entrypoint, extension |-> options.extension]
        over == OrElse(options, "bundleOptions", NoOptions)
    IN  [k \in DOMAIN own \cup DOMAIN over |->
            IF k \in DOMAIN over THEN over[k] ELSE own[k]]

\* the loop over this.entrypoints: one LambdaFunctionCodeBundle each, the
\* first error ending the loop
RECURSIVE forEntrypoints(_, _, _)
forEntrypoints(st, entrypoints, options) ==
    IF entrypoints = <<>> THEN [st |-> st, error |-> "none"]
    ELSE Only({
           IF r.error # "none" THEN [st |-> r.st, error |-> r.error]
           ELSE forEntrypoints(r.st, Tail(entrypoints), options)
           : r \in {LambdaFunctionCodeBundle(
                       st, spreadBundleOptions(Head(entrypoints), options))}})

\* new LambdaFunctionCodeBundler(project, options); entrypoints are the
\* files AutoDiscoverBase found under srcdir with the extension
LambdaFunctionCodeBundler(st, entrypoints, options) ==
    forEntrypoints([st EXCEPT !.components = Append(@, "LambdaFunctionCodeBundler")],
                   entrypoints, options)

---------------------------------------------------------------------------
(* Inputs *)

\* the longest path of the exhaustive path set, in atoms
MaxPathLen == 5

\* the most fields one BundlingOptions object sets
MaxSetFields == 2

\* the most bundles added and the most components constructed in one run
MaxCalls == 2

\* the most entrypoints one discovery finds
MaxDiscovered == 3

PathAtoms == {"src", "a", "ts", sep, DOT}

IsWord(x) == x \notin {sep, DOT, "-"}

\* every relative path of at most MaxPathLen atoms
ShortPaths ==
    {p \in UNION {[1..n -> PathAtoms] : n \in 0..MaxPathLen} :
        /\ p = <<>> \/ p[1] # sep
        /\ \A i \in 1..(Len(p) - 1) : ~(IsWord(p[i]) /\ IsWord(p[i + 1]))}

\* paths of the form <root><dirs><base><ext>
FamilyPaths ==
    {root \o dirs \o base \o ext :
        root \in {<<>>, <<"src", sep>>, <<"src", sep, "src", sep>>,
                  <<DOT, sep>>, <<DOT, DOT, sep>>},
        dirs \in {<<>>, <<"sub", sep>>, <<"sub", sep, "dir", sep>>},
        base \in {<<"foo">>, <<"hello", "-", "world">>},
        ext \in {<<DOT, "lambda", DOT, "ts">>, <<DOT, "ts">>,
                 <<DOT, "lambda", DOT, "js">>, <<>>}}

Paths == ShortPaths \cup FamilyPaths

\* every string of at most MaxPathLen atoms, separators of both platforms
\* among them
NativePaths == UNION {[1..n -> {"a", DOT, sep, BACKSLASH}] : n \in 0..MaxPathLen}

Projects ==
    {[outdir |-> <<sep, "proj">>, eslint |-> FALSE],
     [outdir |-> <<sep, "proj">>, eslint |-> TRUE,
      tsconfigDev |-> <<"tsconfig", DOT, "dev", DOT, "json">>]}

JsonBase64 == << <<<<"json">>, <<"base64">>>> >>

JsonText == << <<<<"json">>, <<"text">>>> >>

DistOptions ==
    [assetsDir |-> <<"dist">>, addToPreCompile |-> FALSE,
     esbuildVersion |-> <<"^0", DOT, "19">>]

\* the BundlerOptions of the runs of bundles
FewBundlerOptions == {NoOptions, DistOptions, [addToPreCompile |-> TRUE]}

\* the BundlerOptions of the single-bundle runs
BuildBundlerOptions ==
    {NoOptions, DistOptions, [loaders |-> JsonBase64], [loaders |-> <<>>]}

OptionFields ==
    <<"target", "platform", "format", "outfile", "externals", "sourcemap",
      "sourcesContent", "minify", "mainFields", "banner", "loaders",
      "tsconfigPath">>

OptionValues(f) ==
    CASE f = "target" -> {<<"es2020">>}
      [] f = "platform" -> {<<"browser">>}
      [] f = "format" -> {<<"cjs">>, <<>>}
      [] f = "outfile" -> {<<"main", DOT, "js">>, <<"out", sep, "main", DOT, "js">>}
      [] f = "externals" -> {<<>>, <<<<"a">>>>, <<<<"a">>, <<"b">>>>, <<<<"a">>, <<"a">>>>}
      [] f = "sourcemap" -> BOOLEAN
      [] f = "sourcesContent" -> BOOLEAN
      [] f = "minify" -> BOOLEAN
      [] f = "mainFields" -> {<<"main">>, <<>>}
      [] f = "banner" -> {<<":js=//x">>, <<>>}
      [] f = "loaders" -> {<<>>, JsonText,
                           JsonText \o << <<<<"png">>, <<"dataurl">>>> >>}
      [] f = "tsconfigPath" -> {<<"tsconfig", DOT, "json">>, <<>>}

\* the BundlingOptions objects that set at most k of the fields i..
RECURSIVE OptionsUpTo(_, _)
OptionsUpTo(i, k) ==
    IF i > Len(OptionFields) \/ k = 0 THEN {NoOptions}
    ELSE OptionsUpTo(i + 1, k)
         \cup {With(o, OptionFields[i], v) :
                  v \in OptionValues(OptionFields[i]), o \in OptionsUpTo(i + 1, k - 1)}

RichOptions == OptionsUpTo(1, MaxSetFields)

MainJs == [outfile |-> <<"main", DOT, "js">>]

\* an outfile in the directory above
UpMainJs == [outfile |-> <<DOT, DOT, sep, "main", DOT, "js">>]

HelloWorld == <<"src", sep, "hello", "-", "world", DOT, "lambda", DOT, "ts">>

SubDirFoo == <<"src", sep, "sub", sep, "dir", sep, "foo", DOT, "lambda", DOT, "ts">>

BuildEntrypoints == {HelloWorld, SubDirFoo}

\* an entrypoint with no directory
FooNoDir == <<"foo", DOT, "lambda", DOT, "ts">>

\* an entrypoint whose file name is the extension and nothing more
OnlyExtension == <<"src", sep>> \o DefaultExtension

\* two handlers side by side under src/
HandlerEntrypoints ==
    {<<"src", sep, "a", DOT, "lambda", DOT, "ts">>,
     <<"src", sep, "b", DOT, "lambda", DOT, "ts">>}

\* a handler of the same file name in a directory below
SubA == <<"src", sep, "sub", sep, "a", DOT, "lambda", DOT, "ts">>

\* a caller-supplied constructName
MyCode == <<"MyCode">>

Entrypoints ==
    HandlerEntrypoints \cup
    {<<"a", DOT, "lambda", DOT, "ts">>,
     <<"src", sep, "a", DOT, "lambda", DOT, "js">>,
     SubA}

XTs == <<"src", sep, "x", DOT, "ts">>

XJs == <<"src", sep, "x", DOT, "js">>

\* the constructions of the runs of bundles
FewBundleOptions ==
    LET base == {[entrypoint |-> e, extension |-> DefaultExtension] : e \in Entrypoints}
        under == {o \in base : o.entrypoint \in HandlerEntrypoints}
    IN  base
        \cup {With(o, "constructFile", XTs) : o \in under}
        \cup {[entrypoint |-> SubA, extension |-> DefaultExtension,
               bundlingOptions |-> UpMainJs]}
        \cup {[entrypoint |-> SubA, extension |-> DefaultExtension,
               constructName |-> MyCode]}

\* the files with the extension .lambda.ts under src/
LambdaFiles == HandlerEntrypoints \cup {SubA, SubDirFoo}

\* what a discovery finds: distinct files, at most MaxDiscovered of them
Discoveries ==
    {es \in UNION {[1..n -> LambdaFiles] : n \in 0..MaxDiscovered} :
        \A i, j \in 1..Len(es) : i # j => es[i] # es[j]}

\* the options of the discovering component: bundleOptions absent, or a
\* LambdaFunctionCodeBundleOptions object with its two required fields
BundlerComponentOptions ==
    LET own == [extension |-> DefaultExtension, srcdir |-> SRC]
        required == [entrypoint |-> SubA, extension |-> DefaultExtension]
    IN  {own,
         With(own, "bundleOptions", required),
         With(own, "bundleOptions", With(required, "bundlingOptions", MainJs)),
         With(own, "bundleOptions", With(required, "constructName", MyCode))}

\* the constructions of the single-bundle runs: the options of the component
\* set and unset, and every bundling option
RichBundleOptions ==
    LET base == {[entrypoint |-> e, extension |-> x] :
                    e \in BuildEntrypoints
                          \cup {<<"src", sep, "a", DOT, "ts">>, FooNoDir, OnlyExtension},
                    x \in {DefaultExtension, TS}}
    IN  base
        \cup {Without(o, "extension") : o \in base}
        \cup {With(o, "constructFile", f) : o \in base, f \in {XTs, XJs}}
        \cup {[entrypoint |-> e, extension |-> DefaultExtension,
               bundlingOptions |-> b] : e \in BuildEntrypoints, b \in RichOptions}

---------------------------------------------------------------------------
(* Actions *)

Init ==
    /\ project \in Projects
    /\ bundler = NoBundler
    /\ components = <<>>
    /\ tasks = <<>>
    /\ preCompile = <<>>
    /\ gitignore = <<>>
    /\ npmignore = <<>>
    /\ deps = <<>>
    /\ files = <<>>
    /\ eslintAllow = <<>>
    /\ bundles = <<>>
    /\ last = [op |-> "init", error |-> "none"]

\* the project becomes st
Becomes(st) ==
    /\ project' = st.project
    /\ bundler' = st.bundler
    /\ components' = st.components
    /\ tasks' = st.tasks
    /\ preCompile' = st.preCompile
    /\ gitignore' = st.gitignore
    /\ npmignore' = st.npmignore
    /\ deps' = st.deps
    /\ files' = st.files
    /\ eslintAllow' = st.eslintAllow
    /\ bundles' = st.bundles

\* the LambdaFunctionCodeBundle constructions so far, failed ones included
Constructions ==
    Cardinality({i \in 1..Len(components) :
                    components[i] = "LambdaFunctionCodeBundle"})

\* new Bundler(project, options)
NewBundler(options) ==
    /\ ~bundler.present
    /\ \E st \in {[Cur EXCEPT !.bundler = NewBundlerFields(options),
                                !.components = Append(@, "Bundler")]} : Becomes(st)
    /\ last' = [op |-> "Bundler", error |-> "none", options |-> options]

\* a read of bundler.bundleTask
ReadBundleTask ==
    /\ bundler.present
    /\ \E r \in {bundleTask(Cur)} :
           /\ Becomes(r.st)
           /\ last' = [op |-> "bundleTask", error |-> r.error,
                       created |-> ~bundler.hasTask,
                       task |-> TaskNamed(r.st.tasks, BUNDLE)]

\* bundler.addBundle(entrypoint, options)
AddBundle(entrypoint, options) ==
    /\ bundler.present
    /\ \E r \in {addBundle(Cur, entrypoint, options)} :
           /\ Becomes(r.st)
           /\ last' = [op |-> "addBundle", error |-> r.error,
                       entrypoint |-> entrypoint, options |-> options,
                       bundle |-> r.bundle]

\* new LambdaFunctionCodeBundle(project, options)
NewLambdaFunctionCodeBundle(options) ==
    \E r \in {LambdaFunctionCodeBundle(Cur, options)} :
        /\ Becomes(r.st)
        /\ last' = [op |-> "LambdaFunctionCodeBundle", error |-> r.error,
                    options |-> options, made |-> r.made]

\* new LambdaFunctionCodeBundler(project, options) finding entrypoints
NewLambdaFunctionCodeBundler(entrypoints, options) ==
    \E r \in {LambdaFunctionCodeBundler(Cur, entrypoints, options)} :
        /\ Becomes(r.st)
        /\ last' = [op |-> "LambdaFunctionCodeBundler", error |-> r.error,
                    options |-> options, entrypoints |-> entrypoints]

\* convertToPosixPath(p) on the platform of nativeSep
ConvertToPosixPath(nativeSep, p) ==
    /\ last' = [op |-> "convertToPosixPath", error |-> "none", sep |-> nativeSep,
                path |-> p, result |-> convertToPosixPathOn(nativeSep, p)]
    /\ UNCHANGED <<project, bundler, components, tasks, preCompile, gitignore,
                   npmignore, deps, files, eslintAllow, bundles>>

\* renderBundleName(entrypoint), called on its own
RenderBundleName(entrypoint) ==
    /\ last' = [op |-> "renderBundleName", error |-> "none",
                entrypoint |-> entrypoint, name |-> renderBundleName(entrypoint)]
    /\ UNCHANGED <<project, bundler, components, tasks, preCompile, gitignore,
                   npmignore, deps, files, eslintAllow, bundles>>

---------------------------------------------------------------------------
(* Specifications *)

\* runs of at most MaxCalls bundles and constructions on one project
Next ==
    \/ \E o \in FewBundlerOptions : NewBundler(o)
    \/ ReadBundleTask /\ last.op # "bundleTask"
    \/ Len(bundles) < MaxCalls /\ \E e \in Entrypoints : AddBundle(e, NoOptions)
    \/ /\ Len(bundles) < MaxCalls
       /\ Constructions < MaxCalls
       /\ \E o \in FewBundleOptions : NewLambdaFunctionCodeBundle(o)

Spec == Init /\ [][Next]_vars

\* one bundle, built from every bundling option
NextBuild ==
    \/ \E o \in BuildBundlerOptions : NewBundler(o)
    \/ /\ bundles = <<>>
       /\ Constructions = 0
       /\ \E e \in BuildEntrypoints, o \in RichOptions : AddBundle(e, o)
    \/ /\ bundles = <<>>
       /\ Constructions = 0
       /\ \E o \in RichBundleOptions : NewLambdaFunctionCodeBundle(o)

SpecBuild == Init /\ [][NextBuild]_vars

\* one discovery on a project
NextDiscover ==
    \/ \E o \in FewBundlerOptions : NewBundler(o)
    \/ /\ last.op # "LambdaFunctionCodeBundler"
       /\ \E es \in Discoveries, o \in BundlerComponentOptions :
             NewLambdaFunctionCodeBundler(es, o)

SpecDiscover == Init /\ [][NextDiscover]_vars

\* convertToPosixPath on every platform and native path
NextPosix ==
    \E s \in {sep, BACKSLASH}, p \in NativePaths :
        last.op = "init" /\ ConvertToPosixPath(s, p)

SpecPosix == Init /\ [][NextPosix]_vars

\* renderBundleName on every path
NextName == \E p \in Paths : last.op = "init" /\ RenderBundleName(p)

SpecName == Init /\ [][NextName]_vars

---------------------------------------------------------------------------
(* Claims *)

\* the last operation built a bundle command
HasBundle ==
    \/ last.op = "addBundle"
    \/ last.op = "LambdaFunctionCodeBundle" /\ Has(last.made, "bundle")

\* the Bundle of the last operation
LastBundle == IF last.op = "addBundle" THEN last.bundle ELSE last.made.bundle

\* the BundlingOptions the last operation handed to addBundle
LastPassed ==
    IF last.op = "addBundle" THEN last.options ELSE last.made.bundlingOptions

Tokens(args) == {args[i] : i \in 1..Len(args)}

\* the tokens of args that begin with the atom flag, in order
FlagTokens(args, flag) == SelectSeq(args, LAMBDA t : t # <<>> /\ t[1] = flag)

Quoted(flag, v) == <<flag>> \o v \o <<"\"">>

LoaderFlags(loaders) ==
    [i \in 1..Len(loaders) |->
        <<"--loader:.">> \o loaders[i][1] \o <<"=">> \o loaders[i][2]]

ExternalFlags(externals) ==
    [i \in 1..Len(externals) |-> <<"--external:">> \o externals[i]]

\* C1 (as claimed): addBundle with no option set and no Bundler-level loaders
\* builds exactly the twelve default tokens, --sources-content=false among
\* them, and no --tsconfig, --external: or --loader: flag.
C1_AllDefaultTokens ==
    (/\ last.op = "addBundle"
     /\ last.options = NoOptions
     /\ ~Has(bundler.options, "loaders"))
    => /\ Len(last.bundle.args) = 12
       /\ Tokens(last.bundle.args) =
            {<<"esbuild">>, <<"--bundle">>, last.entrypoint,
             Quoted("--target=\"", <<"esnext">>),
             Quoted("--platform=\"", <<"node">>),
             Quoted("--outfile=\"", last.bundle.outfile),
             <<"--sourcemap">>, <<"--sources-content=", "false">>,
             <<"--minify">>, <<"--format=", "esm">>,
             <<"--main-fields=", "module,main">>,
             <<"--banner">> \o DefaultBanner}

\* C2 (as claimed): every bundle command carries exactly one sources-content
\* flag with the resolved boolean, whatever sourcemap is; --sourcemap is
\* there exactly when sourcemap resolves to true.
C2_SourcesContentAlways ==
    HasBundle =>
        /\ FlagTokens(LastBundle.args, "--sources-content=") =
             << <<"--sources-content=">>
                \o BoolStr(OrElse(LastPassed, "sourcesContent", FALSE)) >>
        /\ (<<"--sourcemap">> \in Tokens(LastBundle.args))
             <=> OrElse(LastPassed, "sourcemap", TRUE)

\* C3 (as claimed): for an entrypoint src/<dirs>/<base><ext> with <ext> the
\* configured extension, the identifier is <dirs>/<base>, the task is
\* bundle:<dirs>/<base> and the output file
\* <assetsDir>/<dirs>/<base>/<outfile or index.mjs>.
C3_IdentifierStripsExtension ==
    (/\ last.op = "LambdaFunctionCodeBundle"
     /\ last.error = "none"
     /\ StartsWith(last.made.entrypoint, <<"src", sep>>))
    => LET e == last.made.entrypoint
           id == DropLast(SubSeq(e, 3, Len(e)), Len(last.made.extension))
       IN  /\ last.made.bundle.name = id
           /\ last.made.bundle.taskName = <<"bundle:">> \o id
           /\ last.made.bundle.outfile =
                bundler.bundledir \o <<sep>> \o id \o <<sep>>
                \o OrElse(last.made.bundlingOptions, "outfile",
                          <<"index", DOT, "mjs">>)

\* C4: the --loader: flags of a bundle command are those of the call's
\* loader map when the call has one, and those of the Bundler's map only
\* when it has none; the two maps are never merged.
C4_LoadersOverride ==
    HasBundle =>
        FlagTokens(LastBundle.args, "--loader:.") =
            LoaderFlags(IF Has(LastPassed, "loaders") THEN LastPassed.loaders
                        ELSE OrElse(bundler.options, "loaders", <<>>))

\* C4: a call with {json: "text"} on a Bundler with {json: "base64"}
C4_Witness ==
    /\ HasBundle
    /\ last.error = "none"
    /\ Has(LastPassed, "loaders") /\ LastPassed.loaders = JsonText
    /\ Has(bundler.options, "loaders") /\ bundler.options.loaders = JsonBase64
    /\ FlagTokens(LastBundle.args, "--loader:.") = << <<"--loader:.", "json", "=", "text">> >>

\* the bundle carries the value v supplied for the field f
Carries(bundle, f, v) ==
    CASE f = "target" -> Quoted("--target=\"", v) \in Tokens(bundle.args)
      [] f = "platform" -> Quoted("--platform=\"", v) \in Tokens(bundle.args)
      [] f = "format" -> <<"--format=">> \o v \in Tokens(bundle.args)
      [] f = "outfile" -> bundle.outfile = join(bundle.outdir, v)
      [] f = "externals" ->
            FlagTokens(bundle.args, "--external:") = ExternalFlags(v)
      [] f = "sourcemap" -> (<<"--sourcemap">> \in Tokens(bundle.args)) <=> v
      [] f = "sourcesContent" ->
            <<"--sources-content=">> \o BoolStr(v) \in Tokens(bundle.args)
      [] f = "minify" -> (<<"--minify">> \in Tokens(bundle.args)) <=> v
      [] f = "mainFields" -> <<"--main-fields=">> \o v \in Tokens(bundle.args)
      [] f = "banner" -> <<"--banner">> \o v \in Tokens(bundle.args)
      [] f = "loaders" -> FlagTokens(bundle.args, "--loader:.") = LoaderFlags(v)
      [] f = "tsconfigPath" -> Quoted("--tsconfig=\"", v) \in Tokens(bundle.args)

\* C5 (as claimed): every field set in the bundlingOptions of a
\* LambdaFunctionCodeBundle reaches the command with the supplied value,
\* tsconfigPath included.
C5_ExplicitBeatsDefault ==
    (/\ last.op = "LambdaFunctionCodeBundle"
     /\ last.error = "none"
     /\ Has(last.options, "bundlingOptions"))
    => \A f \in DOMAIN last.options.bundlingOptions :
          Carries(last.made.bundle, f, last.options.bundlingOptions[f])

ConfigurationErrors ==
    {"no bundler", "entrypoint extension", "construct file extension"}

\* C6: a LambdaFunctionCodeBundle construction ends in a configuration
\* error, with no bundle built, when the project has no Bundler, when the
\* entrypoint does not end with the configured extension, and when the
\* construct file (default or override) has not the extension ".ts".
C6_ConfigurationErrors ==
    last.op = "LambdaFunctionCodeBundle" =>
        LET noBundler == ~bundler.present
            badEntrypoint ==
                ~EndsWith(last.options.entrypoint,
                          OrElse(last.options, "extension", DefaultExtension))
            badConstructFile ==
                extname(OrElse(last.options, "constructFile",
                               last.made.constructFile)) # TS
        IN  (noBundler \/ badEntrypoint \/ badConstructFile)
            => /\ last.error \in ConfigurationErrors
               /\ ~Has(last.made, "bundle")
               /\ noBundler => last.error = "no bundler"

\* C6: each of the three errors is raised
C6_Witness ==
    /\ last.op = "LambdaFunctionCodeBundle"
    /\ last.error = "construct file extension"
    /\ Has(last.options, "constructFile") /\ last.options.constructFile = XJs
    /\ bundler.present
    /\ tasks = <<>> /\ files = <<>>

\* the tasks bundle:<name>
BundleTasks(ts) == {i \in 1..Len(ts) : ts[i].name # BUNDLE}

\* C7 (as claimed): a construction either succeeds and registers one bundle
\* task and one construct file, or fails and registers neither.
C7_NoPartialSuccess ==
    [][last'.op = "LambdaFunctionCodeBundle" =>
         \/ /\ last'.error = "none"
            /\ Cardinality(BundleTasks(tasks')) = Cardinality(BundleTasks(tasks)) + 1
            /\ Len(files') = Len(files) + 1
         \/ /\ last'.error # "none"
            /\ BundleTasks(tasks') = BundleTasks(tasks)
            /\ files' = files]_vars

\* C8 (as claimed): renderBundleName("src/" + rest) = renderBundleName(rest)
\* for every relative path rest.
C8_SrcPrefixDropped ==
    last.op = "renderBundleName" =>
        renderBundleName(<<"src", sep>> \o last.entrypoint) = last.name

\* the first segment of the normalized path
FirstSegment(p) == Head(SplitSep(join(p, <<>>)))

\* C8 (amended): renderBundleName("src/" + rest) = renderBundleName(rest)
\* for every relative path rest whose normalized form does not begin with
\* a segment "src" or "..".
C8_SrcPrefixDroppedOnce ==
    (/\ last.op = "renderBundleName"
     /\ FirstSegment(last.entrypoint) \notin {SRC, <<DOT, DOT>>})
    => renderBundleName(<<"src", sep>> \o last.entrypoint) = last.name

\* C8: rest = "sub/dir/foo.lambda.ts"
C8_Witness ==
    /\ last.op = "renderBundleName"
    /\ last.entrypoint = <<"sub", sep, "dir", sep, "foo", DOT, "lambda", DOT, "ts">>
    /\ last.name = <<"sub", sep, "dir", sep, "foo", DOT, "lambda">>

\* C9 (as claimed): renderBundleName(renderBundleName(p)) =
\* renderBundleName(p) for every entrypoint p.
C9_Idempotent ==
    last.op = "renderBundleName" => renderBundleName(last.name) = last.name

\* C9 (amended): renderBundleName(renderBundleName(p)) = renderBundleName(p)
\* for every entrypoint p whose identifier has no extension left and does
\* not begin with a segment "src".
C9_IdempotentOnceStripped ==
    (/\ last.op = "renderBundleName"
     /\ extname(last.name) = <<>>
     /\ Head(SplitSep(last.name)) # SRC)
    => renderBundleName(last.name) = last.name

\* C9: p = "src/sub/foo.ts"
C9_Witness ==
    /\ last.op = "renderBundleName"
    /\ last.entrypoint = <<"src", sep, "sub", sep, "foo", DOT, "ts">>
    /\ last.name = <<"sub", sep, "foo">>

UnderSrc(e) ==
    /\ StartsWith(e, <<"src", sep>>)
    /\ join(e, <<>>) = e
    /\ e[Len(e)] # sep
    /\ basename(e, extname(e)) \notin {<<DOT>>, <<DOT, DOT>>}

---------------------------------------------------------------------------
(* The generated construct file *)

\* the last operation is a construction that registered its construct file
Constructed == last.op = "LambdaFunctionCodeBundle" /\ last.error = "none"

\* the construct file registered last
LastFile == files[Len(files)]

\* the part of p before its last separator, and the part after it
DirPart(p) == SubSeq(p, 1, LastIndexOf(p, sep) - 1)

FilePart(p) == SubSeq(p, LastIndexOf(p, sep) + 1, Len(p))

\* <entrypointDir>/<baseName>-code.ts, baseName being the file name with
\* the extension cut off its end
CodeFileOf(entrypoint, extension) ==
    LET baseName == DropLast(FilePart(entrypoint), Len(extension))
    IN  (IF DirPart(entrypoint) = <<>> THEN <<>> ELSE DirPart(entrypoint) \o <<sep>>)
        \o baseName \o <<"-", "code", DOT, "ts">>

StrippedName(entrypoint, extension) ==
    IF FilePart(entrypoint) = extension THEN extension
    ELSE DropLast(FilePart(entrypoint), Len(extension))

AssetDir == join(dirname(LastFile.path), LastFile.asset)

\* C13 (as claimed): for every entrypoint, constructFile override and
\* outfile option, the construct file's directory joined with the path
\* written into the file is <assetsDir>/<bundleIdentifier>.
C13_RelativePathToOutdir ==
    Constructed =>
        /\ AssetDir = join(bundler.bundledir, LastBundle.name)
        /\ AssetDir = LastBundle.outdir

\* C13 (amended): the construct file's directory joined with the path
\* written into the file is the directory of the bundle's output file,
\* which is <assetsDir>/<bundleIdentifier> when the outfile option names
\* no directory.
C13_RelativePathToOutfileDir ==
    Constructed =>
        /\ AssetDir = dirname(LastBundle.outfile)
        /\ sep \notin Tokens(OrElse(LastPassed, "outfile", <<>>))
              => AssetDir = join(bundler.bundledir, LastBundle.name)

\* C13: src/sub/dir/foo-code.ts points three directories up and into
\* assets/sub/dir/foo.lambda
C13_Witness ==
    /\ Constructed
    /\ last.options.entrypoint = SubDirFoo
    /\ LastFile.path = <<"src", sep, "sub", sep, "dir", sep, "foo", "-", "code", DOT, "ts">>
    /\ LastFile.asset = <<DOT, DOT, sep, DOT, DOT, sep, DOT, DOT, sep,
                          "assets", sep, "sub", sep, "dir", sep, "foo", DOT, "lambda">>

---------------------------------------------------------------------------
(* Discovery *)

\* the last operation is a discovery on a project that has a Bundler
Discovered == last.op = "LambdaFunctionCodeBundler" /\ bundler.present

\* C14 (as claimed): for n distinct discovered entrypoints and every value
\* of the shared bundle options, absent or present, exactly n bundle tasks
\* and n construct files are registered, and the i-th command bundles the
\* i-th entrypoint and writes to the output location derived from it.
C14_OneBundlePerEntrypoint ==
    Discovered =>
        /\ last.error = "none"
        /\ Cardinality(BundleTasks(tasks)) = Len(last.entrypoints)
        /\ Len(files) = Len(last.entrypoints)
        /\ Len(bundles) = Len(last.entrypoints)
        /\ \A i \in 1..Len(bundles) :
              /\ bundles[i].entrypoint = last.entrypoints[i]
              /\ bundles[i].args[3] = last.entrypoints[i]
              /\ bundles[i].outdir =
                    join(bundler.bundledir, renderBundleName(last.entrypoints[i]))

---------------------------------------------------------------------------
(* The command *)

\* the place of a token in the order of the command, by the flag it begins
\* with; the entrypoint, which begins with no flag, has place 3
Rank(t) ==
    CASE t = <<"esbuild">> -> 1
      [] t = <<"--bundle">> -> 2
      [] t # <<>> /\ t[1] = "--target=\"" -> 4
      [] t # <<>> /\ t[1] = "--platform=\"" -> 5
      [] t # <<>> /\ t[1] = "--outfile=\"" -> 6
      [] t # <<>> /\ t[1] = "--tsconfig=\"" -> 7
      [] t # <<>> /\ t[1] = "--external:" -> 8
      [] t = <<"--sourcemap">> -> 9
      [] t # <<>> /\ t[1] = "--sources-content=" -> 10
      [] t = <<"--minify">> -> 11
      [] t # <<>> /\ t[1] = "--format=" -> 12
      [] t # <<>> /\ t[1] = "--main-fields=" -> 13
      [] t # <<>> /\ t[1] = "--banner" -> 14
      [] t # <<>> /\ t[1] = "--loader:." -> 15
      [] OTHER -> 3

\* the tokens stand in the order of their places; only --external: and
\* --loader: flags repeat
InOrder(args) ==
    \A i, j \in 1..Len(args) :
        i < j => \/ Rank(args[i]) < Rank(args[j])
                 \/ Rank(args[i]) = Rank(args[j]) /\ Rank(args[i]) \in {8, 15}

\* the task registered for the last bundle
LastTask == CHOOSE t \in Tokens(tasks) : t.name = LastBundle.taskName

\* C15: the tokens of the command built by addBundle stand in the order
\* esbuild, --bundle, entrypoint, --target, --platform, --outfile,
\* --tsconfig, --external:, --sourcemap, --sources-content, --minify,
\* --format, --main-fields, --banner, --loader:, and the exec string of the
\* task is the tokens joined by single spaces.
C15_TokenOrder ==
    (HasBundle /\ last.error = "none") =>
        /\ Len(LastBundle.args) >= 6
        /\ \A i \in 1..6 : Rank(LastBundle.args[i]) = i
        /\ LastBundle.args[3] = LastBundle.entrypoint
        /\ InOrder(LastBundle.args)
        /\ LastTask.exec = JoinSpace(LastBundle.args)
        /\ Len(LastTask.exec) =
              Len(LastBundle.args) - 1
              + Len(SelectSeq(LastTask.exec, LAMBDA x : x # " "))

\* C15: a command with externals, every switch, and loaders
C15_Witness ==
    /\ last.op = "addBundle" /\ last.error = "none"
    /\ Len(FlagTokens(last.bundle.args, "--external:")) = 2
    /\ Len(FlagTokens(last.bundle.args, "--loader:.")) = 2
    /\ {<<"--sourcemap">>, <<"--minify">>} \subseteq Tokens(last.bundle.args)
    /\ Len(last.bundle.args) = 15

---------------------------------------------------------------------------
(* The "bundle" task *)

\* the tasks called "bundle"
TasksNamedBundle == {i \in 1..Len(tasks) : tasks[i].name = BUNDLE}

\* C16: the "bundle" task of a Bundler is a singleton: once a read of
\* bundleTask or an addBundle has happened the project has exactly one task
\* called "bundle", before that it has none, and every read of bundleTask
\* succeeds and returns that one task.
C16_BundleTaskSingleton ==
    /\ Cardinality(TasksNamedBundle) = IF bundler.present /\ bundler.hasTask THEN 1 ELSE 0
    /\ (last.op = "addBundle" /\ last.error = "none") => bundler.hasTask
    /\ last.op = "bundleTask" =>
          /\ last.error = "none"
          /\ bundler.hasTask
          /\ TasksNamedBundle = {last.task}

\* C16: a read of bundleTask after two bundles were added, with one
\* "bundle" task that spawns both
C16_Witness ==
    /\ last.op = "bundleTask" /\ ~last.created
    /\ Len(bundles) = 2
    /\ Cardinality(TasksNamedBundle) = 1
    /\ Len(tasks[last.task].spawns) = 2

\* the spawns of the "bundle" task from the pre-compile task
PreCompileSpawns == {i \in 1..Len(preCompile) : preCompile[i] = BUNDLE}

\* C17: the pre-compile task spawns the "bundle" task exactly once when
\* the Bundler was made with addToPreCompile true or unset and its
\* "bundle" task exists, however many bundles were added, and never when
\* addToPreCompile is false.
C17_PreCompileSpawnOnce ==
    /\ ~bundler.present => preCompile = <<>>
    /\ bundler.present =>
          Cardinality(PreCompileSpawns) =
              IF bundler.hasTask /\ OrElse(bundler.options, "addToPreCompile", TRUE)
              THEN 1 ELSE 0
    /\ Len(preCompile) = Cardinality(PreCompileSpawns)

\* C17: two bundles added to a Bundler made with no option, one spawn
C17_Witness ==
    /\ bundler.present /\ bundler.options = NoOptions
    /\ Len(bundles) = 2
    /\ preCompile = <<BUNDLE>>

---------------------------------------------------------------------------
(* convertToPosixPath *)

\* C18: convertToPosixPath gives a result for every string; when the
\* platform's separator is not "/" the result holds no such separator; and
\* converting the result again leaves it as it is.
C18_PosixPath ==
    last.op = "convertToPosixPath" =>
        /\ Len(last.result) = Len(last.path)
        /\ last.sep # "/" => last.sep \notin Tokens(last.result)
        /\ convertToPosixPathOn(last.sep, last.result) = last.result

\* C18: on win32, ..\assets\a becomes ../assets/a
C18_Witness ==
    /\ last.op = "convertToPosixPath"
    /\ last.sep = BACKSLASH
    /\ last.path = <<DOT, DOT, BACKSLASH, "a", BACKSLASH>>
    /\ last.result = <<DOT, DOT, "/", "a", "/">>

---------------------------------------------------------------------------
(* Format, main fields, banner *)

\* the value of field f handed to the last addBundle, or its default d
PassedOr(f, d) == OrElse(LastPassed, f, d)

---------------------------------------------------------------------------
(* Externals *)

\* C20: the command has one --external:<name> flag for each element of the
\* externals list, in the order of the list and with repeated names
\* repeated, and no other --external: flag; with the list absent or empty
\* it has none.
C20_ExternalFlags ==
    HasBundle =>
        /\ FlagTokens(LastBundle.args, "--external:") =
              ExternalFlags(PassedOr("externals", <<>>))
        /\ \A i \in 1..Len(LastBundle.args) :
              "--external:" \in Tokens(LastBundle.args[i])
                  => LastBundle.args[i][1] = "--external:"

\* C20: externals ["a", "a"] give --external:a twice; ["a", "b"] is among
\* the inputs too
C20_Witness ==
    /\ last.op = "addBundle"
    /\ Has(last.options, "externals")
    /\ last.options.externals = << <<"a">>, <<"a">> >>
    /\ FlagTokens(last.bundle.args, "--external:") =
          << <<"--external:", "a">>, <<"--external:", "a">> >>

---------------------------------------------------------------------------
(* Optional flags *)

\* C21: the command has the token --tsconfig="<path>" exactly when a
\* non-empty tsconfig path reaches addBundle, the token --sourcemap exactly
\* when sourcemap resolves to true (its default), and the token --minify
\* exactly when minify resolves to true (its default).
C21_OptionalFlags ==
    HasBundle =>
        /\ FlagTokens(LastBundle.args, "--tsconfig=\"") =
              IF PassedOr("tsconfigPath", <<>>) = <<>> THEN <<>>
              ELSE << Quoted("--tsconfig=\"", LastPassed.tsconfigPath) >>
        /\ <<"--sourcemap">> \in Tokens(LastBundle.args) <=> PassedOr("sourcemap", TRUE)
        /\ <<"--minify">> \in Tokens(LastBundle.args) <=> PassedOr("minify", TRUE)
        /\ Len(SelectSeq(LastBundle.args, LAMBDA t : t = <<"--sourcemap">>)) <= 1
        /\ Len(SelectSeq(LastBundle.args, LAMBDA t : t = <<"--minify">>)) <= 1

\* C21: tsconfigPath "tsconfig.json" and sourcemap false: a --tsconfig
\* flag, no --sourcemap, and --minify by default
C21_Witness ==
    /\ last.op = "addBundle"
    /\ Has(last.options, "sourcemap") /\ ~last.options.sourcemap
    /\ Quoted("--tsconfig=\"", <<"tsconfig", DOT, "json">>) \in Tokens(last.bundle.args)
    /\ <<"--sourcemap">> \notin Tokens(last.bundle.args)
    /\ <<"--minify">> \in Tokens(last.bundle.args)

---------------------------------------------------------------------------
(* Bundling support *)

\* /<assetsDir>/ of the project's Bundler
IgnoreEntry == <<"/">> \o OrElse(bundler.options, "assetsDir", <<"assets">>) \o <<"/">>

\* the build dependency of the project's Bundler
EsbuildDep ==
    [name |-> IF Has(bundler.options, "esbuildVersion")
              THEN <<"esbuild", "@">> \o bundler.options.esbuildVersion
              ELSE <<"esbuild">>,
     type |-> "build"]

\* C22: bundling support is added at the first reference to bundleTask and
\* at no later one: from then on the project has the git-ignore entry
\* /<assetsDir>/, the package-ignore entry !/<assetsDir>/ and the build
\* dependency on esbuild (esbuild@<version> when esbuildVersion is set),
\* each once; a project without a Bundler, or with a Bundler whose
\* bundleTask was not read and on which addBundle was not called, has no
\* task, no ignore entry and no dependency.
C22_LazyBundlingSupport ==
    IF bundler.present /\ bundler.hasTask
    THEN /\ gitignore = <<IgnoreEntry>>
         /\ npmignore = <<<<"!">> \o IgnoreEntry>>
         /\ deps = <<EsbuildDep>>
         /\ last.op \in {"bundleTask", "addBundle", "LambdaFunctionCodeBundle"}
    ELSE /\ tasks = <<>>
         /\ gitignore = <<>>
         /\ npmignore = <<>>
         /\ deps = <<>>
         /\ last.op \notin {"bundleTask", "addBundle"}

\* C22: a Bundler made for dist and esbuild ^0.19, two bundles added, then
\* bundleTask read: one entry of each kind
C22_Witness ==
    /\ last.op = "bundleTask" /\ ~last.created
    /\ Len(bundles) = 2
    /\ gitignore = <<<<"/", "dist", "/">>>>
    /\ npmignore = <<<<"!", "/", "dist", "/">>>>
    /\ deps = <<[name |-> <<"esbuild", "@", "^0", DOT, "19">>, type |-> "build"]>>

---------------------------------------------------------------------------
(* Spawns of the "bundle" task *)

\* the steps of the "bundle" task
BundleSpawns ==
    IF TasksNamedBundle = {} THEN <<>>
    ELSE tasks[CHOOSE i \in TasksNamedBundle : TRUE].spawns

\* the "bundle" task spawns the tasks of the bundles added, each once, in
\* the order they were added, and every one of them is a registered task
\* whose command is the bundle's
SpawnsInOrder ==
    /\ BundleSpawns = [i \in 1..Len(bundles) |-> bundles[i].taskName]
    /\ \A i, j \in 1..Len(bundles) : i # j => bundles[i].taskName # bundles[j].taskName
    /\ \A i \in 1..Len(bundles) :
          /\ TaskNamed(tasks, bundles[i].taskName) # 0
          /\ tasks[TaskNamed(tasks, bundles[i].taskName)].exec = JoinSpace(bundles[i].args)
          /\ bundles[i].taskName = <<"bundle:">> \o bundles[i].name
    /\ Cardinality(BundleTasks(tasks)) = Len(bundles)

---------------------------------------------------------------------------
(* Failed constructions *)

\* C24 (as claimed): a LambdaFunctionCodeBundle construction that fails
\* with a configuration error (wrong entrypoint extension, construct file
\* without .ts) leaves the project as it was: no task, ignore entry,
\* dependency or file is added, the component list is unchanged and the
\* ESLint allowance for the entrypoint is not added.
C24_FailedConstructionFrame ==
    [][(/\ last'.op = "LambdaFunctionCodeBundle"
        /\ last'.error \in {"entrypoint extension", "construct file extension"})
       => UNCHANGED <<tasks, gitignore, npmignore, deps, files, preCompile,
                      components, eslintAllow>>]_vars

====
